---- MODULE Spec2Model ----
(***************************************************************************)
(* A state-machine model of pro_8.py, the "Shopping Behavior Analyzer"     *)
(* dashboard: the dataset df, the four filter controls, the stored         *)
(* filtered frame last_filtered_df, the report selection                   *)
(* current_detail_option, the lazily created details popup, and what the   *)
(* graph, summary and popup panes show.                                    *)
(*                                                                         *)
(* A DataFrame is a sequence of rows; a row is a function from column      *)
(* names to values.  pd.DataFrame() is the empty sequence.  Amounts are    *)
(* whole dollars and review ratings are tenths (31 is 3.1).  The age-group *)
(* labels are written with an ASCII hyphen.                                *)
(***************************************************************************)
EXTENDS Integers, Sequences, FiniteSets, TLC

VARIABLES
    df,                    \* the dataset read at load (module level, line 11-29)
    gender_var,            \* the four filter controls (StringVar)
    age_var,
    category_var,
    season_var,
    last_filtered_df,      \* global, line 43
    current_detail_option, \* global, line 44
    details_popup,         \* global, line 45: "None" or the Toplevel's state
    popup_text,            \* what the popup's text box shows
    graph_frame,           \* what the chart pane shows
    summary_frame,         \* what the summary pane shows
    session,               \* Idle / Filtered / Empty (section 4.5 of the spec)
    invoked                \* the handler that ran last, its argument, and the
                           \* computations and dialogs it ran

vars == <<df, gender_var, age_var, category_var, season_var, last_filtered_df,
          current_detail_option, details_popup, popup_text, graph_frame,
          summary_frame, session, invoked>>

----------------------------------------------------------------------------
(* Bounds of the model *)

MaxRows == 2            \* rows of a dataset of the session specification
MaxFilterRows == 2      \* rows of a dataset of the filter specification
MaxAge == 70            \* ages 0-MinAgeBelow .. MaxAge in the age specification
MinAgeBelow == 2
MaxItems == 4           \* distinct items of a dataset of the ranking specification
MaxItemCount == 5       \* occurrences of one item there
MaxLaggardRows == 16    \* rows of a dataset of the laggards specification

----------------------------------------------------------------------------
(* Program constants *)

LaggardCount == 15      \* nsmallest(15, ...)
TopItemCount == 3       \* head(3)

age_bins == <<0, 25, 35, 45, 55, 65, 100>>
age_labels == <<"<25", "25-35", "35-45", "45-55", "55-65", "65+">>
age_ranges == <<"All", "18-25", "26-35", "36-45", "46-60", "60+">>

DetailOptions == {"Location", "Color", "Least Purchases"}

CsvColumns == {"Customer ID", "Gender", "Age", "Category", "Season",
               "Item Purchased", "Color", "Location", "Purchase Amount (USD)",
               "Review Rating", "Previous Purchases"}

----------------------------------------------------------------------------
(* Sequences and frames *)

Range(s) == {s[i] : i \in DOMAIN s}

Min2(a, b) == IF a <= b THEN a ELSE b

RECURSIVE SumSeq(_)
SumSeq(s) == IF s = <<>> THEN 0 ELSE Head(s) + SumSeq(Tail(s))

EmptyFrame == <<>>

IsEmpty(frame) == Len(frame) = 0

Columns(frame) == IF frame = <<>> THEN {} ELSE DOMAIN frame[1]

Values(frame, c) == {frame[i][c] : i \in DOMAIN frame}

\* frame[mask]: the rows whose column c holds v, in their order
WhereEq(frame, c, v) == SelectSeq(frame, LAMBDA r : r[c] = v)

\* groupby(c).size() and groupby(c)[d].sum(), for one group
GroupSize(frame, c, v) == Cardinality({i \in DOMAIN frame : frame[i][c] = v})

GroupSum(frame, c, v, d) ==
    SumSeq([i \in DOMAIN frame |-> IF frame[i][c] = v THEN frame[i][d] ELSE 0])

\* pd.cut(age, bins=age_bins, labels=age_labels, right=True, include_lowest=True)
AgeCut(age) ==
    IF age < age_bins[1] \/ age > age_bins[Len(age_bins)] THEN "NaN"
    ELSE IF age = age_bins[1] THEN age_labels[1]
    ELSE age_labels[CHOOSE i \in DOMAIN age_labels :
                        age_bins[i] < age /\ age <= age_bins[i + 1]]

\* A row as it stands after load: the CSV's columns and the 'Age Group' column
Row(id, p) ==
    [c \in CsvColumns \cup {"Age Group"} |->
        CASE c = "Customer ID" -> id
          [] c = "Gender" -> p.gender
          [] c = "Age" -> p.age
          [] c = "Category" -> p.category
          [] c = "Season" -> p.season
          [] c = "Item Purchased" -> p.item
          [] c = "Color" -> p.color
          [] c = "Location" -> p.location
          [] c = "Purchase Amount (USD)" -> p.amount
          [] c = "Review Rating" -> p.rating
          [] c = "Previous Purchases" -> p.previous
          [] c = "Age Group" -> AgeCut(p.age)]

\* The dataset whose i-th record has profile ps[i]; Customer ID is the position
LoadFrame(ps) == [i \in DOMAIN ps |-> Row(i, ps[i])]

\* frame[c] = pd.cut(frame['Age'], ...), written into the frame
WithAgeColumn(frame, c) ==
    [i \in DOMAIN frame |->
        [k \in DOMAIN frame[i] \cup {c} |->
            IF k = c THEN AgeCut(frame[i]["Age"]) ELSE frame[i][k]]]

\* Series.sort_values(ascending=False) and value_counts(): the default sort
\* kind is not stable, so equal values may come out in any order.  The set of
\* all enumerations of keys in non-increasing order of val.
RECURSIVE DescOrders(_, _)
DescOrders(keys, val) ==
    IF keys = {} THEN {<<>>}
    ELSE LET top == {k \in keys : \A j \in keys : val[j] <= val[k]}
         IN UNION {{<<k>> \o t : t \in DescOrders(keys \ {k}, val)} : k \in top}

\* Series.sort_values(ascending=True) over the positions of a frame
RECURSIVE AscOrders(_, _)
AscOrders(keys, val) ==
    IF keys = {} THEN {<<>>}
    ELSE LET low == {k \in keys : \A j \in keys : val[k] <= val[j]}
         IN UNION {{<<k>> \o t : t \in AscOrders(keys \ {k}, val)} : k \in low}

\* argsort(kind="mergesort"): the one stable ascending order of the positions
RECURSIVE StableAsc(_, _)
StableAsc(keys, val) ==
    IF keys = {} THEN <<>>
    ELSE LET k == CHOOSE k \in keys :
                    \A j \in keys : val[k] < val[j] \/ (val[k] = val[j] /\ k <= j)
         IN <<k>> \o StableAsc(keys \ {k}, val)

\* round(sum / n, 2) in hundredths, for ratings summed in tenths.  An exact tie
\* is decided by the binary floating-point value of the mean, which may lie on
\* either side: both neighbours are possible.
RoundedMeans(sum, n) ==
    LET q == sum * 10
        lo == q \div n
        rem == q % n
    IN IF 2 * rem < n THEN {lo}
       ELSE IF 2 * rem > n THEN {lo + 1}
       ELSE {lo, lo + 1}

----------------------------------------------------------------------------
(* The filter engine: apply_age_filter and the four filters of analyze_data *)

\* apply_age_filter with the last range read as "60 and over"
apply_age_filter_inclusive(frame, age_range) ==
    IF age_range = "18-25"
    THEN SelectSeq(frame, LAMBDA r : r["Age"] >= 18 /\ r["Age"] <= 25)
    ELSE IF age_range = "26-35"
    THEN SelectSeq(frame, LAMBDA r : r["Age"] >= 26 /\ r["Age"] <= 35)
    ELSE IF age_range = "36-45"
    THEN SelectSeq(frame, LAMBDA r : r["Age"] >= 36 /\ r["Age"] <= 45)
    ELSE IF age_range = "46-60"
    THEN SelectSeq(frame, LAMBDA r : r["Age"] >= 46 /\ r["Age"] <= 60)
    ELSE IF age_range = "60+"
    THEN SelectSeq(frame, LAMBDA r : r["Age"] >= 60)
    ELSE frame

apply_age_filter(frame, age_range) ==
    IF age_range = "18-25"
    THEN SelectSeq(frame, LAMBDA r : r["Age"] >= 18 /\ r["Age"] <= 25)
    ELSE IF age_range = "26-35"
    THEN SelectSeq(frame, LAMBDA r : r["Age"] >= 26 /\ r["Age"] <= 35)
    ELSE IF age_range = "36-45"
    THEN SelectSeq(frame, LAMBDA r : r["Age"] >= 36 /\ r["Age"] <= 45)
    ELSE IF age_range = "46-60"
    THEN SelectSeq(frame, LAMBDA r : r["Age"] >= 46 /\ r["Age"] <= 60)
    ELSE IF age_range = "60+"
    THEN SelectSeq(frame, LAMBDA r : r["Age"] > 60)
    ELSE frame

\* The gender filter without its test for "All"
GenderFilterUnguarded(frame, g) == WhereEq(frame, "Gender", g)

GenderFilter(frame, g) == IF g # "All" THEN WhereEq(frame, "Gender", g) ELSE frame

AgeFilter(frame, a) == IF a # "All" THEN apply_age_filter(frame, a) ELSE frame

CategoryFilter(frame, c) == IF c # "All" THEN WhereEq(frame, "Category", c) ELSE frame

SeasonFilter(frame, s) == IF s # "All" THEN WhereEq(frame, "Season", s) ELSE frame

\* An analysis that narrows the frame stored by the previous one
FilterFromStored(store, stored) == stored

\* filtered_df = df.copy(): every analysis starts from the dataset
FilterSource(store, stored) == store

\* Each filter applied to the dataset instead of to the running result: the
\* last constrained criterion alone decides
FilteredFrameLastOnly(store, stored, g, a, c, s) ==
    IF s # "All" THEN SeasonFilter(store, s)
    ELSE IF c # "All" THEN CategoryFilter(store, c)
    ELSE IF a # "All" THEN AgeFilter(store, a)
    ELSE GenderFilter(store, g)

\* filtered_df after the four filters
FilteredFrame(store, stored, g, a, c, s) ==
    SeasonFilter(CategoryFilter(AgeFilter(GenderFilter(FilterSource(store, stored), g), a), c), s)

\* The values the filter controls offer
GenderValues(store) == {"All"} \cup Values(store, "Gender")
AgeValues == Range(age_ranges)
CategoryValues(store) == {"All"} \cup Values(store, "Category")
SeasonValues(store) == {"All"} \cup Values(store, "Season")

----------------------------------------------------------------------------
(* The summary and the chart of analyze_data *)

TotalSales(frame) ==
    SumSeq([i \in DOMAIN frame |-> frame[i]["Purchase Amount (USD)"]])

\* round(filtered_df["Review Rating"].mean(), 2), or "N/A"
AvgRatings(frame) ==
    IF "Review Rating" \in Columns(frame)
    THEN {[known |-> TRUE, value |-> m] :
            m \in RoundedMeans(SumSeq([i \in DOMAIN frame |-> frame[i]["Review Rating"]]),
                               Len(frame))}
    ELSE {[known |-> FALSE]}

\* The number of rows holding each age label, for a column of labels
LabelCounts(labels) ==
    [l \in DOMAIN age_labels |->
        Cardinality({i \in DOMAIN labels : labels[i] = age_labels[l]})]

\* Series.mode()[0] over label counts n: the most frequent label, the first in
\* label order among equals
ModalLabel(n) ==
    age_labels[CHOOSE l \in DOMAIN age_labels :
                  \A k \in DOMAIN age_labels : n[k] < n[l] \/ (n[k] = n[l] /\ l <= k)]

\* top_age_group: the mode of the column 'Current Age Group', recomputed from
\* 'Age'; "N/A" when no row has a load-time age group
TopAgeGroup(frame) ==
    IF \E i \in DOMAIN frame : frame[i]["Age Group"] # "NaN"
    THEN ModalLabel(LabelCounts([i \in DOMAIN frame |-> AgeCut(frame[i]["Age"])]))
    ELSE "N/A"

\* The entries of rec_text for the items h, in order: item, count and rounded
\* mean rating, every way the roundings may fall
ItemLines(h, size, means) ==
    {[i \in DOMAIN h |-> [item |-> h[i], count |-> size[h[i]], avg |-> b[i]]] :
        b \in {b \in [DOMAIN h -> UNION Range(means)] :
                  \A i \in DOMAIN h : b[i] \in means[h[i]]}}

\* The ranking sorted ascending
RankedItemsAscending(size, means) ==
    UNION {ItemLines(SubSeq(o, 1, Min2(TopItemCount, Len(o))), size, means) :
             o \in AscOrders(DOMAIN size, size)}

\* grouped.size().sort_values(ascending=False).head(3) for the group sizes
\* size, each item with its mean rating: every list the sort may yield
RankedItems(size, means) ==
    UNION {ItemLines(SubSeq(o, 1, Min2(TopItemCount, Len(o))), size, means) :
             o \in DescOrders(DOMAIN size, size)}

\* rec_text of analyze_data
TopItems(frame) ==
    IF "Item Purchased" \in Columns(frame)
    THEN RankedItems(
            [k \in Values(frame, "Item Purchased") |-> GroupSize(frame, "Item Purchased", k)],
            [k \in Values(frame, "Item Purchased") |->
                RoundedMeans(GroupSum(frame, "Item Purchased", k, "Review Rating"),
                             GroupSize(frame, "Item Purchased", k))])
    ELSE {<<>>}

Blank == [kind |-> "blank"]

\* What the summary pane may show for a non-empty filtered frame
Summaries(frame) ==
    {[kind |-> "summary",
      total_sales |-> TotalSales(frame),
      avg_rating |-> r,
      top_age_group |-> TopAgeGroup(frame),
      total_records |-> Len(frame),
      rec_text |-> t,
      details_button |-> TRUE] : r \in AvgRatings(frame), t \in TopItems(frame)}

\* The bar chart: category totals, sorted descending
Charts(frame) ==
    IF "Category" \in Columns(frame)
    THEN LET cats == Values(frame, "Category")
             total == [k \in cats |-> GroupSum(frame, "Category", k, "Purchase Amount (USD)")]
         IN {[kind |-> "chart", bars |-> [i \in DOMAIN o |-> [key |-> o[i], value |-> total[o[i]]]]] :
                o \in DescOrders(cats, total)}
    ELSE {[kind |-> "no category data"]}

----------------------------------------------------------------------------
(* The detail reports of update_details_display *)

\* head(n) of the frame as it stands, without the sort
NSmallestUnsorted(frame, n, c) == {[i \in 1..Min2(n, Len(frame)) |-> i]}

\* filtered_df.nsmallest(15, c): the positions listed, in order.  With n at
\* least the frame's length pandas sorts the whole column with the default
\* (unstable) kind and takes head(n); otherwise it keeps the positions whose
\* value is at most the n-th smallest, sorts them stably and keeps the first n.
NSmallest(frame, n, c) ==
    LET val == [i \in DOMAIN frame |-> frame[i][c]]
    IN IF n >= Len(frame)
       THEN {SubSeq(o, 1, Min2(n, Len(o))) : o \in AscOrders(DOMAIN frame, val)}
       ELSE LET kth == CHOOSE v \in Range(val) :
                          /\ Cardinality({i \in DOMAIN val : val[i] < v}) < n
                          /\ Cardinality({i \in DOMAIN val : val[i] <= v}) >= n
                ns == {i \in DOMAIN val : val[i] <= kth}
            IN {SubSeq(StableAsc(ns, val), 1, n)}

LocationReports(frame) ==
    LET locs == Values(frame, "Location")
        sales == [k \in locs |-> GroupSum(frame, "Location", k, "Purchase Amount (USD)")]
    IN {[kind |-> "Location",
         lines |-> [i \in DOMAIN o |-> [key |-> o[i], value |-> sales[o[i]]]],
         top |-> o[1]] : o \in DescOrders(locs, sales)}

\* value_counts() and idxmax(): the first label holding the highest count
ColorReports(frame) ==
    LET colors == Values(frame, "Color")
        count == [k \in colors |-> GroupSize(frame, "Color", k)]
    IN {[kind |-> "Color",
         lines |-> [i \in DOMAIN o |-> [key |-> o[i], value |-> count[o[i]]]],
         top |-> o[1]] : o \in DescOrders(colors, count)}

LaggardReports(frame) ==
    {[kind |-> "Least Purchases",
      lines |-> [i \in DOMAIN o |->
                    [id |-> frame[o[i]]["Customer ID"],
                     location |-> frame[o[i]]["Location"],
                     previous |-> frame[o[i]]["Previous Purchases"]]]] :
        o \in NSmallest(frame, LaggardCount, "Previous Purchases")}

\* The text the popup's text box gets for the stored frame and the option
ReportTexts(stored, option) ==
    IF IsEmpty(stored) THEN {[kind |-> "no data"]}
    ELSE IF option = "Location"
    THEN IF {"Purchase Amount (USD)", "Location"} \subseteq Columns(stored)
         THEN LocationReports(stored)
         ELSE {[kind |-> "columns missing"]}
    ELSE IF option = "Color" /\ "Color" \in Columns(stored)
    THEN ColorReports(stored)
    ELSE IF option = "Least Purchases"
    THEN LaggardReports(stored)
    ELSE {[kind |-> "no report"]}

\* What a run of the text-building part of update_details_display computes
ReportCalls(stored) == IF IsEmpty(stored) THEN {"no data text"} ELSE {"report"}

NoPopupText == [kind |-> "none"]

\* The record kept of a handler's run
Ran(handler, arg, ran) == [handler |-> handler, arg |-> arg, ran |-> ran]

----------------------------------------------------------------------------
(* The handlers *)

\* update_details_display that also drops the stored frame
update_details_display_clearing(option) ==
    /\ current_detail_option' = option
    /\ last_filtered_df' = EmptyFrame
    /\ IF details_popup = "None"
       THEN /\ popup_text' = popup_text
            /\ invoked' = Ran("update_details_display", option, {})
       ELSE /\ popup_text' \in ReportTexts(EmptyFrame, option)
            /\ invoked' = Ran("update_details_display", option, ReportCalls(EmptyFrame))
    /\ UNCHANGED <<df, gender_var, age_var, category_var, season_var,
                   details_popup, graph_frame, summary_frame, session>>

\* update_details_display(option)
update_details_display(option) ==
    /\ current_detail_option' = option
    /\ IF details_popup = "None"
       THEN /\ popup_text' = popup_text
            /\ invoked' = Ran("update_details_display", option, {})
       ELSE /\ popup_text' \in ReportTexts(last_filtered_df, option)
            /\ invoked' = Ran("update_details_display", option, ReportCalls(last_filtered_df))
    /\ UNCHANGED <<df, gender_var, age_var, category_var, season_var, last_filtered_df,
                   details_popup, graph_frame, summary_frame, session>>

\* show_details_popup(): the "Detailed Reports" button
show_details_popup ==
    /\ IF IsEmpty(last_filtered_df)
       THEN /\ invoked' = Ran("show_details_popup", "", {"warning: no data"})
            /\ UNCHANGED <<details_popup, popup_text>>
       ELSE /\ details_popup' = "mapped"
            /\ popup_text' \in ReportTexts(last_filtered_df, current_detail_option)
            /\ invoked' = Ran("show_details_popup", "", ReportCalls(last_filtered_df))
    /\ UNCHANGED <<df, gender_var, age_var, category_var, season_var, last_filtered_df,
                   current_detail_option, graph_frame, summary_frame, session>>

\* The column written into df itself when no filter made a new frame
DatasetWrittenThrough(store, g, a, c, s) ==
    IF g = "All" /\ a = "All" /\ c = "All" /\ s = "All"
    THEN WithAgeColumn(store, "Current Age Group")
    ELSE store

\* df after analyze_data: the column 'Current Age Group' is written into
\* filtered_df, which line 203 made a copy of df
DatasetAfterAnalysis(store, g, a, c, s) == store

\* last_filtered_df = filtered_df.copy(), taken before the column is written
StoredCopy(filtered) == filtered

\* The summary computed before the test for an empty result
EmptyResultCallsWithSummary == {"summary", "warning: no records"}

\* What analyze_data runs when the filters leave no record
EmptyResultCalls == {"warning: no records"}

\* analyze_data() from line 215 on, filtered_df being the frame the four
\* filters left; via names what called the handler
AnalyzeFiltered(g, a, c, s, via, filtered_df) ==
    /\ df' = DatasetAfterAnalysis(df, g, a, c, s)
    /\ IF IsEmpty(filtered_df)
       THEN /\ invoked' = Ran("analyze_data", via, EmptyResultCalls)
            /\ graph_frame' = Blank
            /\ summary_frame' = Blank
            /\ last_filtered_df' = EmptyFrame
            /\ session' = "Empty"
            /\ UNCHANGED <<current_detail_option, details_popup, popup_text>>
       ELSE /\ last_filtered_df' = StoredCopy(filtered_df)
            /\ session' = "Filtered"
            /\ summary_frame' \in Summaries(filtered_df)
            /\ graph_frame' \in Charts(filtered_df)
            /\ IF details_popup = "mapped"
               THEN /\ popup_text' \in ReportTexts(last_filtered_df', current_detail_option)
                    /\ invoked' = Ran("analyze_data", via,
                                      {"summary", "chart"} \cup ReportCalls(last_filtered_df'))
               ELSE /\ popup_text' = popup_text
                    /\ invoked' = Ran("analyze_data", via, {"summary", "chart"})
            /\ UNCHANGED <<current_detail_option, details_popup>>

\* analyze_data() with the controls reading g, a, c, s
analyze_data(g, a, c, s, via) ==
    /\ gender_var' = g
    /\ age_var' = a
    /\ category_var' = c
    /\ season_var' = s
    /\ AnalyzeFiltered(g, a, c, s, via, FilteredFrame(df, last_filtered_df, g, a, c, s))

\* root.after(100, analyze_data): the first callback of the main loop
StartupAnalysis ==
    /\ session = "Idle"
    /\ analyze_data(gender_var, age_var, category_var, season_var, "root.after")

\* The user sets the four controls and presses "Apply Filter & Analyze"
ApplyFilter ==
    \E g \in GenderValues(df), a \in AgeValues,
       c \in CategoryValues(df), s \in SeasonValues(df) :
        analyze_data(g, a, c, s, "button")

\* One of the popup's three report buttons
SelectReport == \E option \in DetailOptions : update_details_display(option)

----------------------------------------------------------------------------
(* The state after construction, for a given dataset *)

Loaded(frame) ==
    /\ df = frame
    /\ gender_var = "All"
    /\ age_var = "All"
    /\ category_var = "All"
    /\ season_var = "All"
    /\ last_filtered_df = EmptyFrame
    /\ current_detail_option = "Location"
    /\ details_popup = "None"
    /\ popup_text = NoPopupText
    /\ graph_frame = Blank
    /\ summary_frame = Blank
    /\ session = "Idle"
    /\ invoked = Ran("none", "", {})

BaseProfile ==
    [gender |-> "Female", age |-> 25, category |-> "Clothing", season |-> "Fall",
     item |-> "Blouse", color |-> "Red", location |-> "Ohio",
     amount |-> 50, rating |-> 31, previous |-> 2]

\* The session specification: small datasets, every handler
SessionProfiles ==
    {BaseProfile,
     [gender |-> "Male", age |-> 61, category |-> "Clothing", season |-> "Fall",
      item |-> "Jacket", color |-> "Blue", location |-> "Texas",
      amount |-> 30, rating |-> 45, previous |-> 5]}

SessionFrames ==
    {LoadFrame(ps) : ps \in UNION {[1..n -> SessionProfiles] : n \in 0..MaxRows}}

Init == \E frame \in SessionFrames : Loaded(frame)

Next == StartupAnalysis \/ ApplyFilter \/ show_details_popup \/ SelectReport

Spec == Init /\ [][Next]_vars

----------------------------------------------------------------------------
(* The filter specification: datasets that exercise the four criteria and  *)
(* every age, under the startup analysis and the Apply button              *)

AgeFrames ==
    {LoadFrame(<<[BaseProfile EXCEPT !.age = a]>>) : a \in (0 - MinAgeBelow)..MaxAge}

CriteriaProfiles ==
    {BaseProfile,
     [BaseProfile EXCEPT !.gender = "Male"],
     [BaseProfile EXCEPT !.age = 61],
     [BaseProfile EXCEPT !.category = "Footwear"],
     [BaseProfile EXCEPT !.season = "Winter"]}

CriteriaFrames ==
    {LoadFrame(ps) : ps \in UNION {[1..n -> CriteriaProfiles] : n \in 1..MaxFilterRows}}

InitFilter == \E frame \in AgeFrames \cup CriteriaFrames : Loaded(frame)

NextFilter == StartupAnalysis \/ ApplyFilter

SpecFilter == InitFilter /\ [][NextFilter]_vars

----------------------------------------------------------------------------
(* The ranking specification: datasets given by how often each item occurs *)

ItemNames == <<"Blouse", "Boots", "Coat", "Dress", "Hat", "Jeans", "Socks">>

\* The item of row j when item k fills counts[k] consecutive rows
ItemOfRow(counts, j) ==
    CHOOSE k \in DOMAIN counts :
        /\ SumSeq(SubSeq(counts, 1, k - 1)) < j
        /\ j <= SumSeq(SubSeq(counts, 1, k))

ItemFrame(counts) ==
    LoadFrame([j \in 1..SumSeq(counts) |->
                  [BaseProfile EXCEPT !.item = ItemNames[ItemOfRow(counts, j)],
                                      !.rating = 30 + ItemOfRow(counts, j),
                                      !.previous = j]])

ItemFrames == {ItemFrame(counts) : counts \in [1..MaxItems -> 0..MaxItemCount]}

InitItems == \E frame \in ItemFrames : Loaded(frame)

NextItems == StartupAnalysis

SpecItems == InitItems /\ [][NextItems]_vars

----------------------------------------------------------------------------
(* The laggards specification: datasets given by their 'Previous           *)
(* Purchases' column, with at most a few equal values                      *)

LaggardColumns ==
    UNION {{[k \in 1..n |-> IF k = j THEN i ELSE k] : i, j \in 1..n}
           \cup {[k \in 1..n |-> (n + 1) - (IF k = j THEN i ELSE k)] : i, j \in 1..n}
           \cup {[k \in 1..n |-> (k + 1) \div 2]} : n \in 1..MaxLaggardRows}

LaggardFrame(col) ==
    LoadFrame([k \in DOMAIN col |-> [BaseProfile EXCEPT !.previous = col[k]]])

LaggardFrames == {LaggardFrame(col) : col \in LaggardColumns}

InitLaggards == \E frame \in LaggardFrames : Loaded(frame)

NextLaggards == StartupAnalysis \/ show_details_popup \/ SelectReport

SpecLaggards == InitLaggards /\ [][NextLaggards]_vars

----------------------------------------------------------------------------
(* The statements checked *)

\* The age-range intervals as the specification states them
ClaimedInRange(age, r) ==
    CASE r = "18-25" -> 18 <= age /\ age <= 25
      [] r = "26-35" -> 26 <= age /\ age <= 35
      [] r = "36-45" -> 36 <= age /\ age <= 45
      [] r = "46-60" -> 46 <= age /\ age <= 60
      [] r = "60+" -> age > 60
      [] OTHER -> TRUE

\* A record satisfies every constrained criterion of the FilterSpec
ClaimedSelects(row, g, a, c, s) ==
    /\ g = "All" \/ row["Gender"] = g
    /\ ClaimedInRange(row["Age"], a)
    /\ c = "All" \/ row["Category"] = c
    /\ s = "All" \/ row["Season"] = s

ClaimedFilteredSet(frame, g, a, c, s) ==
    SelectSeq(frame, LAMBDA row : ClaimedSelects(row, g, a, c, s))

Unconstrained ==
    gender_var = "All" /\ age_var = "All" /\ category_var = "All" /\ season_var = "All"

\* C1: in every session state a report selection (update_details_display)
\* sets current_detail_option to the selected option and leaves the stored
\* filtered frame, the dataset, the displayed summary and chart, the filter
\* controls and the session state as they were.
C1_SelectReportFrame ==
    [][invoked'.handler = "update_details_display" =>
          /\ current_detail_option' = invoked'.arg
          /\ UNCHANGED <<last_filtered_df, df, summary_frame, graph_frame, session,
                         gender_var, age_var, category_var, season_var>>]_vars

C1_Witness ==
    /\ invoked.handler = "update_details_display"
    /\ session = "Filtered"
    /\ details_popup = "mapped"
    /\ current_detail_option = "Least Purchases"
    /\ popup_text.kind = "Least Purchases"
    /\ summary_frame.kind = "summary"

\* C2: an analysis whose FilterSpec matches no record of the dataset ends in
\* state Empty with an empty stored frame and runs neither the summary nor a
\* detail report; a request for the detail view in state Empty only shows the
\* "no data" warning and computes no report.
C2_EmptyTransition ==
    /\ (/\ invoked.handler = "analyze_data"
        /\ IsEmpty(ClaimedFilteredSet(df, gender_var, age_var, category_var, season_var)))
       => /\ session = "Empty"
          /\ last_filtered_df = EmptyFrame
          /\ invoked.ran \cap {"summary", "chart", "report"} = {}
    /\ (invoked.handler = "show_details_popup" /\ session = "Empty")
       => invoked.ran = {"warning: no data"}

C2_Witness ==
    /\ invoked.handler = "show_details_popup"
    /\ session = "Empty"
    /\ invoked.ran = {"warning: no data"}
    /\ ~Unconstrained
    /\ df # EmptyFrame

\* C3: in every reachable state the summary on display is the one computed
\* from the stored filtered frame (none when it is empty), and a visible detail
\* report is one computed from the stored filtered frame and the current
\* report selection.
C3_DisplayIsCurrent ==
    /\ session = "Filtered" => summary_frame \in Summaries(last_filtered_df)
    /\ session = "Empty" => summary_frame = Blank
    /\ details_popup = "mapped" =>
          popup_text \in ReportTexts(last_filtered_df, current_detail_option)

\* C4: once an analysis has run, the stored filtered frame is the records of
\* the dataset that satisfy the controls' FilterSpec, whatever analyses,
\* report selections and empty results came before.
C4_FilteredSetIsFunctionOfSpec ==
    session # "Idle" =>
        last_filtered_df =
            ClaimedFilteredSet(df, gender_var, age_var, category_var, season_var)

C4_Witness ==
    /\ session = "Filtered"
    /\ details_popup = "mapped"
    /\ popup_text.kind = "Color"
    /\ Len(last_filtered_df) = 1
    /\ Len(df) = 2
    /\ last_filtered_df[1] = df[2]

\* C5: no step changes the dataset df.
C5_DatasetImmutable == [][df' = df]_vars

C5_Witness ==
    /\ invoked.handler = "analyze_data"
    /\ Unconstrained
    /\ session = "Filtered"
    /\ summary_frame.top_age_group # "N/A"
    /\ details_popup = "mapped"
    /\ \A i \in DOMAIN df : DOMAIN df[i] = CsvColumns \cup {"Age Group"}

\* C7: after an analysis with all four controls at "All" the stored filtered
\* frame equals the dataset; the startup analysis is such a run.
C7_UnconstrainedSelectsAll ==
    (session # "Idle" /\ Unconstrained) => last_filtered_df = df

C7_Witness ==
    /\ invoked.handler = "analyze_data"
    /\ invoked.arg = "root.after"
    /\ Unconstrained
    /\ session = "Filtered"
    /\ Len(df) = MaxRows
    /\ last_filtered_df = df

\* C6: with only the age range constrained, a record of the dataset is in the
\* stored filtered frame exactly when its age lies in the stated interval
\* ('18-25': 18..25, '26-35': 26..35, '36-45': 36..45, '46-60': 46..60,
\* '60+': over 60), and apply_age_filter selects no age under two ranges.
C6_AgeRangeBoundaries ==
    /\ (/\ session # "Idle"
        /\ gender_var = "All" /\ category_var = "All" /\ season_var = "All"
        /\ age_var # "All")
       => \A i \in DOMAIN df :
             (df[i] \in Range(last_filtered_df)) <=> ClaimedInRange(df[i]["Age"], age_var)
    /\ \A i \in DOMAIN df :
          Cardinality({r \in AgeValues \ {"All"} :
                          ~IsEmpty(apply_age_filter(<<df[i]>>, r))}) <= 1

C6_Witness ==
    /\ session = "Filtered"
    /\ gender_var = "All" /\ category_var = "All" /\ season_var = "All"
    /\ age_var = "46-60"
    /\ Len(df) = 1
    /\ df[1]["Age"] = 60
    /\ last_filtered_df = df
    /\ IsEmpty(apply_age_filter(df, "60+"))

\* The second FilterSpec is the first with one more criterion constrained
AddsOneConstraint ==
    /\ Cardinality({k \in 1..4 :
           <<gender_var, age_var, category_var, season_var>>[k]
               # <<gender_var', age_var', category_var', season_var'>>[k]}) = 1
    /\ \A k \in 1..4 :
           <<gender_var, age_var, category_var, season_var>>[k]
               # <<gender_var', age_var', category_var', season_var'>>[k]
           => <<gender_var, age_var, category_var, season_var>>[k] = "All"

\* C8: an analysis whose FilterSpec adds one constraint to the FilterSpec of
\* the analysis before it stores a subset of the frame stored before; and the
\* frame an analysis stores holds the records that pass each of the four
\* filters taken alone (the predicates combine by AND).
C8_Monotone ==
    [][invoked'.handler = "analyze_data" =>
          /\ (session # "Idle" /\ AddsOneConstraint)
             => Range(last_filtered_df') \subseteq Range(last_filtered_df)
          /\ Range(last_filtered_df') =
                Range(GenderFilter(df, gender_var')) \cap Range(AgeFilter(df, age_var'))
                \cap Range(CategoryFilter(df, category_var'))
                \cap Range(SeasonFilter(df, season_var'))]_vars

C8_Witness ==
    /\ session = "Filtered"
    /\ gender_var # "All"
    /\ season_var # "All"
    /\ age_var = "All" /\ category_var = "All"
    /\ Len(df) = 2
    /\ Len(last_filtered_df) = 1
    /\ Len(GenderFilter(df, gender_var)) = 2

\* The number of records of the stored frame holding the item
ItemCount(item) ==
    Cardinality({i \in DOMAIN last_filtered_df :
                    last_filtered_df[i]["Item Purchased"] = item})

\* C9: for a non-empty filtered frame the top-items list holds min(3, number
\* of distinct items) distinct items, each with its number of occurrences, in
\* non-increasing order of that number, and no item left out occurs more often
\* than a listed one.
C9_TopItems ==
    session = "Filtered" =>
        LET t == summary_frame.rec_text
            items == Values(last_filtered_df, "Item Purchased")
            listed == {t[i].item : i \in DOMAIN t}
        IN /\ Len(t) = Min2(3, Cardinality(items))
           /\ listed \subseteq items
           /\ Cardinality(listed) = Len(t)
           /\ \A i \in DOMAIN t : t[i].count = ItemCount(t[i].item)
           /\ \A i, j \in DOMAIN t : i < j => t[i].count >= t[j].count
           /\ \A k \in items \ listed : \A i \in DOMAIN t : ItemCount(k) <= t[i].count

\* Counts {A:5, B:5, C:3, D:1}: A and B, then C
C9_Witness ==
    /\ session = "Filtered"
    /\ ItemCount(ItemNames[1]) = 5 /\ ItemCount(ItemNames[2]) = 5
    /\ ItemCount(ItemNames[3]) = 3 /\ ItemCount(ItemNames[4]) = 1
    /\ Len(last_filtered_df) = 14
    /\ {summary_frame.rec_text[i].item : i \in 1..2} = {ItemNames[1], ItemNames[2]}
    /\ summary_frame.rec_text[2].item = ItemNames[1]
    /\ summary_frame.rec_text[3].item = ItemNames[3]

\* The position in the stored frame of the record a laggards line shows
LineRow(line) ==
    CHOOSE i \in DOMAIN last_filtered_df : last_filtered_df[i]["Customer ID"] = line.id

\* The laggards list shows min(15, n) different records of the stored frame in
\* ascending order of previous purchases, and no record left out has fewer
\* previous purchases than a listed one
LaggardsSelected(lines) ==
    /\ Len(lines) = Min2(15, Len(last_filtered_df))
    /\ \A i \in DOMAIN lines :
          \E k \in DOMAIN last_filtered_df :
             /\ last_filtered_df[k]["Customer ID"] = lines[i].id
             /\ last_filtered_df[k]["Previous Purchases"] = lines[i].previous
             /\ last_filtered_df[k]["Location"] = lines[i].location
    /\ \A i, j \in DOMAIN lines : i < j => lines[i].id # lines[j].id
    /\ \A i, j \in DOMAIN lines : i < j => lines[i].previous <= lines[j].previous
    /\ \A k \in DOMAIN last_filtered_df :
          (\A i \in DOMAIN lines : lines[i].id # last_filtered_df[k]["Customer ID"])
          => \A i \in DOMAIN lines :
                lines[i].previous <= last_filtered_df[k]["Previous Purchases"]

\* Lines with equal previous purchases stand in the order of their records
LaggardsStable(lines) ==
    \A i, j \in DOMAIN lines :
        (i < j /\ lines[i].previous = lines[j].previous)
        => LineRow(lines[i]) < LineRow(lines[j])

LaggardsShown ==
    /\ details_popup = "mapped"
    /\ current_detail_option = "Least Purchases"
    /\ popup_text.kind = "Least Purchases"

\* C10 as claimed: the laggards report lists min(15, n) records in ascending
\* order of previous purchases, none left out having fewer than a listed one,
\* and records with equal previous purchases keep their original order.
C10_LaggardsAsClaimed ==
    LaggardsShown =>
        /\ LaggardsSelected(popup_text.lines)
        /\ LaggardsStable(popup_text.lines)

\* C10 amended: the laggards report lists min(15, n) records in ascending
\* order of previous purchases, none left out having fewer than a listed one
\* (all n when n < 15); records with equal previous purchases keep their
\* original order when n > 15.
C10_Laggards ==
    LaggardsShown =>
        /\ LaggardsSelected(popup_text.lines)
        /\ Len(last_filtered_df) > 15 => LaggardsStable(popup_text.lines)

\* 16 records, of which the 16th ties with the 15th smallest and is left out
C10_Witness ==
    /\ LaggardsShown
    /\ Len(last_filtered_df) = 16
    /\ Len(popup_text.lines) = 15
    /\ \E i \in DOMAIN popup_text.lines, k \in DOMAIN last_filtered_df :
          /\ \A j \in DOMAIN popup_text.lines :
                popup_text.lines[j].id # last_filtered_df[k]["Customer ID"]
          /\ popup_text.lines[i].previous = last_filtered_df[k]["Previous Purchases"]
          /\ LineRow(popup_text.lines[i]) < k

====
